---- MODULE Spec2Model ----
\* Verification model of the cuckoo-filter bucket table (src/cuckoo_table.hpp)
\* and of the hash / fingerprint derivation (src/hash_function.hpp).
\*
\* Unsigned machine words are little-endian tuples of bytes: a uint32_t is a
\* 4-tuple, a uint64_t / size_t an 8-tuple, so that all 32 (64) bits keep their
\* width without leaving the range of the model checker's integers.
EXTENDS Integers, Naturals, Sequences, FiniteSets, TLC

VARIABLES
    table_size,   \* CuckooTable::table_size       (number of buckets)
    fp_mask,      \* CuckooTable::fp_mask          (uint32_t)
    buckets,      \* CuckooTable::buckets          (bucket index -> byte index -> byte)
    pre,          \* buckets as they were when the last call was entered
    last,         \* the last call: its name, arguments, return value, out-parameter
    net,          \* for one watched (bucket, fingerprint): successful inserts minus successful deletes
    cq,           \* fingerprintComplement applied twice: arguments, results, position
    hq,           \* HashFunction::hash called twice: arguments, locals, loop iterations so far, results, position
    ctor          \* the constructor call: template arguments, position, codec held by bit_manager

vars == <<table_size, fp_mask, buckets, pre, last, net, cq, hq, ctor>>

-----------------------------------------------------------------------------
\* Bounds of the model.

\* Largest table_size handed to the constructor.
MaxTableSize == 2

\* How far the deletions may outnumber the insertions of the watched pair.
MaxNet == 2

\* Largest small bucket index handed to fingerprintComplement.
MaxIndex == 7

\* Largest num_buckets handed to HashFunction::hash.
MaxBuckets == 6

-----------------------------------------------------------------------------
\* Template parameters of the modelled instantiation
\* CuckooTable<2, 32, uint32_t> (the fifth supported shape).

entries_per_bucket == 2

bits_per_fp == 32

bytes_per_bucket == (entries_per_bucket * bits_per_fp) \div 8

\* Bytes of one fingerprint field inside a bucket.
BytesPerFp == bits_per_fp \div 8

Slots == 0 .. (entries_per_bucket - 1)

Byte == 0 .. 255

-----------------------------------------------------------------------------
\* 32-bit words.

RECURSIVE BitAnd(_, _)
BitAnd(a, b) ==
    IF a = 0 \/ b = 0 THEN 0
    ELSE (a % 2) * (b % 2) + 2 * BitAnd(a \div 2, b \div 2)

And32(x, y) == <<BitAnd(x[1], y[1]), BitAnd(x[2], y[2]), BitAnd(x[3], y[3]), BitAnd(x[4], y[4])>>

\* The uint32_t with value n, for 0 <= n < 2^31.
U32(n) == <<n % 256, (n \div 256) % 256, (n \div 65536) % 256, (n \div 16777216) % 256>>

Zero32 == U32(0)

\* Marker for an out-parameter the call did not assign.
NotWritten == <<>>

SetMin(S) == CHOOSE x \in S : \A y \in S : x <= y

-----------------------------------------------------------------------------
\* Inputs of the model.

\* The mask the filter passes to the constructor: 16-bit fingerprints.
FpMaskInput == <<255, 255, 0, 0>>

\* Fingerprints that lie inside the mask: 0 (the empty sentinel), 1 and 2.
MaskedFps == { U32(v) : v \in {0, 1, 2} }

\* 32-bit arguments with a bit outside the mask: one that masks to 0 and one
\* that masks to 1.
DirtyFps == { <<0, 0, 1, 0>>, <<1, 0, 1, 0>> }

FpInputs == MaskedFps \cup DirtyFps

BucketIdx == 0 .. (table_size - 1)

-----------------------------------------------------------------------------
\* Field codec for the 32-bit shape (BitManager32 of bit_manager.hpp).

\* read(j, bucket): the field at slot j, zero-extended to 32 bits.
read(j, bucket) ==
    [k \in 1 .. 4 |-> IF k <= BytesPerFp THEN bucket[j * BytesPerFp + (k - 1)] ELSE 0]

\* write(j, bucket, fp): exactly the bits of slot j are replaced.
write(j, bucket, fp) ==
    [m \in DOMAIN bucket |->
        IF m \div BytesPerFp = j THEN fp[(m % BytesPerFp) + 1] ELSE bucket[m]]

\* hasvalue(val, fp): some field of the 64-bit view of the bucket equals fp.
hasvalue(val, fp) ==
    \E j \in Slots :
        [k \in 1 .. 4 |-> IF k <= BytesPerFp THEN val[j * BytesPerFp + k] ELSE 0] = fp

-----------------------------------------------------------------------------
\* CuckooTable.

\* The if-chain of the constructor: the codec it allocates for the template
\* arguments, or "throw" for std::runtime_error.
SelectCodec_default(e, b, t) ==
    IF e = 4 /\ b = 4 /\ t = "uint8_t" THEN "BitManager4"
    ELSE IF e = 4 /\ b = 8 /\ t = "uint8_t" THEN "BitManager8"
    ELSE IF e = 4 /\ b = 12 /\ t = "uint16_t" THEN "BitManager12"
    ELSE IF e = 4 /\ b = 16 /\ t = "uint16_t" THEN "BitManager16"
    ELSE "BitManager32"

SelectCodec(e, b, t) ==
    IF e = 4 /\ b = 4 /\ t = "uint8_t" THEN "BitManager4"
    ELSE IF e = 4 /\ b = 8 /\ t = "uint8_t" THEN "BitManager8"
    ELSE IF e = 4 /\ b = 12 /\ t = "uint16_t" THEN "BitManager12"
    ELSE IF e = 4 /\ b = 16 /\ t = "uint16_t" THEN "BitManager16"
    ELSE IF e = 2 /\ b = 32 /\ t = "uint32_t" THEN "BitManager32"
    ELSE "throw"

\* The constructor call of an instantiation, before it runs.
CtorStart(e, b, t) ==
    [pc |-> "start", entries_per_bucket |-> e, bits_per_fp |-> b, fp_type |-> t,
     bit_manager |-> "unset"]

\* The constructor has run: it returned with a codec, or it threw.
CtorRun(c) ==
    LET codec == SelectCodec(c.entries_per_bucket, c.bits_per_fp, c.fp_type)
    IN  IF codec = "throw"
        THEN [c EXCEPT !.pc = "thrown"]
        ELSE [c EXCEPT !.pc = "built", !.bit_manager = codec]

\* The constructed table of the modelled instantiation.
CtorBuilt == CtorRun(CtorStart(entries_per_bucket, bits_per_fp, "uint32_t"))

\* memset(buckets, 0, ...) in the constructor.
EmptyTable(n) == [i \in 0 .. (n - 1) |-> [m \in 0 .. (bytes_per_bucket - 1) |-> 0]]

getTableSize == table_size

maxNoOfElements == entries_per_bucket * table_size

getFingerprint(b, i, j) == And32(read(j, b[i]), fp_mask)

fingerprintCount(b, i) ==
    Cardinality({ j \in Slots : getFingerprint(b, i, j) # Zero32 })

insertFingerprint_nomask(b, i, j, fp) ==
    [b EXCEPT ![i] = write(j, b[i], fp)]

insertFingerprint_noop(b, i, j, fp) == b

insertFingerprint_slot0(b, i, j, fp) ==
    [b EXCEPT ![i] = write(0, b[i], And32(fp, fp_mask))]

insertFingerprint(b, i, j, fp) ==
    [b EXCEPT ![i] = write(j, b[i], And32(fp, fp_mask))]

\* The outcomes of one call: rand() % entries_per_bucket picks the victim.
replacingFingerprintInsertion_always(b, i, fp, eject) ==
    LET empty == { j \in Slots : getFingerprint(b, i, j) = Zero32 }
    IN  IF empty # {}
        THEN { [ret |-> TRUE, prev |-> NotWritten,
                buckets |-> insertFingerprint(b, i, SetMin(empty), fp)] }
        ELSE { [ret |-> FALSE, prev |-> getFingerprint(b, i, next),
                buckets |-> insertFingerprint(b, i, next, fp)] : next \in Slots }

replacingFingerprintInsertion_stale(b, i, fp, eject) ==
    LET empty == { j \in Slots : getFingerprint(b, i, j) = Zero32 }
    IN  IF empty # {}
        THEN { [ret |-> TRUE, prev |-> NotWritten,
                buckets |-> insertFingerprint(b, i, SetMin(empty), fp)] }
        ELSE IF eject
        THEN { [ret |-> FALSE, prev |-> getFingerprint(b, i, 0),
                buckets |-> insertFingerprint(b, i, next, fp)] : next \in Slots }
        ELSE { [ret |-> FALSE, prev |-> NotWritten, buckets |-> b] }

replacingFingerprintInsertion(b, i, fp, eject) ==
    LET empty == { j \in Slots : getFingerprint(b, i, j) = Zero32 }
    IN  IF empty # {}
        THEN { [ret |-> TRUE, prev |-> NotWritten,
                buckets |-> insertFingerprint(b, i, SetMin(empty), fp)] }
        ELSE IF eject
        THEN { [ret |-> FALSE, prev |-> getFingerprint(b, i, next),
                buckets |-> insertFingerprint(b, i, next, fp)] : next \in Slots }
        ELSE { [ret |-> FALSE, prev |-> NotWritten, buckets |-> b] }

\* *((uint64_t *) bucket): the eight bytes that start at bucket i.
Word64(b, i) ==
    [k \in 1 .. 8 |->
        LET a == i * bytes_per_bucket + (k - 1)
        IN  b[a \div bytes_per_bucket][a % bytes_per_bucket]]

containsFingerprint(b, i, fp) == hasvalue(Word64(b, i), fp)

\* containsFingerprint(i1, i2, fp), the two-bucket overload.
containsFingerprint2_first(b, i1, i2, fp) == hasvalue(Word64(b, i1), fp)

containsFingerprint2(b, i1, i2, fp) ==
    hasvalue(Word64(b, i1), fp) \/ hasvalue(Word64(b, i2), fp)

deleteFingerprint_all(b, fp, i) ==
    LET match == { j \in Slots : getFingerprint(b, i, j) = fp }
    IN  IF match # {}
        THEN [ret |-> TRUE,
              buckets |-> [b EXCEPT ![i] =
                  [m \in DOMAIN b[i] |->
                      IF (m \div BytesPerFp) \in match THEN 0 ELSE b[i][m]]]]
        ELSE [ret |-> FALSE, buckets |-> b]

deleteFingerprint_noclear(b, fp, i) ==
    LET match == { j \in Slots : getFingerprint(b, i, j) = fp }
    IN  [ret |-> match # {}, buckets |-> b]

deleteFingerprint(b, fp, i) ==
    LET match == { j \in Slots : getFingerprint(b, i, j) = fp }
    IN  IF match # {}
        THEN [ret |-> TRUE, buckets |-> insertFingerprint(b, i, SetMin(match), Zero32)]
        ELSE [ret |-> FALSE, buckets |-> b]

\* The slots (i, j) with getFingerprint(i, j) == 0, counted over the table.
getNumOfFreeEntries_skipLast(b) ==
    Cardinality({ <<i, j>> \in ((DOMAIN b) \ {table_size - 1}) \X Slots :
                    getFingerprint(b, i, j) = Zero32 })

getNumOfFreeEntries(b) ==
    Cardinality({ <<i, j>> \in (DOMAIN b) \X Slots : getFingerprint(b, i, j) = Zero32 })

-----------------------------------------------------------------------------
\* Word arithmetic of src/hash_function.hpp, on little-endian byte tuples.

RECURSIVE BitXor(_, _)
BitXor(a, b) ==
    IF a = 0 THEN b
    ELSE IF b = 0 THEN a
    ELSE ((a + b) % 2) + 2 * BitXor(a \div 2, b \div 2)

\* x ^ y for words of the same width.
XorWords(x, y) == [k \in 1 .. Len(x) |-> BitXor(x[k], y[k])]

\* The conversion uint32_t -> size_t / uint64_t.
Widen(x) == x \o <<0, 0, 0, 0>>

\* The conversion size_t -> uint32_t.
Trunc32(x) == SubSeq(x, 1, 4)

\* The size_t with value n, for 0 <= n < 2^31.
U64(n) == Widen(U32(n))

RECURSIVE ColSum(_, _, _, _)
ColSum(x, y, k, a) ==
    IF a > k THEN 0 ELSE x[a] * y[k + 1 - a] + ColSum(x, y, k, a + 1)

RECURSIVE MulLimbs(_, _, _, _)
MulLimbs(x, y, k, carry) ==
    IF k > Len(x) THEN <<>>
    ELSE LET c == ColSum(x, y, k, 1) + carry
         IN  <<c % 256>> \o MulLimbs(x, y, k + 1, c \div 256)

\* x * y modulo 2^(width of x), for words of the same width.
MulWords(x, y) == MulLimbs(x, y, 1, 0)

RECURSIVE AddLimbs(_, _, _)
AddLimbs(x, k, carry) ==
    IF k > Len(x) THEN <<>>
    ELSE <<(x[k] + carry) % 256>> \o AddLimbs(x, k + 1, (x[k] + carry) \div 256)

\* x + 1 modulo 2^(width of x).
AddOne(x) == AddLimbs(x, 1, 1)

RECURSIVE LessFrom(_, _, _)
LessFrom(x, y, k) ==
    IF k = 0 THEN FALSE
    ELSE IF x[k] # y[k] THEN x[k] < y[k]
    ELSE LessFrom(x, y, k - 1)

\* x < y for unsigned words of the same width.
Less(x, y) == LessFrom(x, y, Len(x))

\* static const uint32_t MURMUR_CONST = 0x5bd1e995
MURMUR_CONST == <<149, 233, 209, 91>>

\* fp * MURMUR_CONST is a uint32_t product; the XOR is taken in size_t and the
\* return statement converts it to uint32_t.
fingerprintComplement(index, fp) ==
    Trunc32(XorWords(index, Widen(MulWords(fp, MURMUR_CONST))))

\* 2862933555777941757ULL = 0x27BB2EE687B0B0FD
LcgMultiplier == <<253, 176, 176, 135, 230, 46, 187, 39>>

\* std::hash<size_t>{}(key): the identity in libstdc++ and libc++.
StdHash(key) == key

\* key_val * 2862933555777941757ULL + 1
LcgStep(key_val) == AddOne(MulWords(key_val, LcgMultiplier))

\* key_val >> 33, a value below 2^31.
Shift33(key_val) ==
    (key_val[5] \div 2) + key_val[6] * 128 + key_val[7] * 32768 + key_val[8] * 8388608

\* The value of a uint32_t below 2^31.
Val32(x) == x[1] + 256 * x[2] + 65536 * x[3] + 16777216 * x[4]

\* 2^31 = t * d + u with 0 <= u < d, for the divisor d = dm + 1 in 1 .. 2^31;
\* t is given as its 16-bit halves.
DivideTwo31(dm) ==
    IF dm = 2147483647 THEN [hi |-> 0, lo |-> 1, u |-> 0]
    ELSE LET t1 == 2147483647 \div (dm + 1)
             u1 == 2147483647 % (dm + 1)
             exact == (u1 = dm)
             lo1 == (t1 % 65536) + (IF exact THEN 1 ELSE 0)
         IN  [hi |-> (t1 \div 65536) + (lo1 \div 65536),
              lo |-> lo1 % 65536,
              u |-> IF exact THEN 0 ELSE u1 + 1]

\* The integer part of (cnt * u + r) / d, for d = dm + 1 and u, r < d, by
\* adding u to the remainder r cnt times.
RECURSIVE TimesOver(_, _, _, _)
TimesOver(cnt, u, dm, r) ==
    IF cnt = 0 THEN 0
    ELSE IF r > dm - u
         THEN 1 + TimesOver(cnt - 1, u, dm, r - (dm - u) - 1)
         ELSE TimesOver(cnt - 1, u, dm, r + u)

\* The integer part of (b + 1) * 2^31 / d for d = (key_val >> 33) + 1, as its
\* low 32 bits (hi, lo: 16 bits each) and a flag that it reached 2^32.
Quotient(bplus, dm) ==
    LET t == DivideTwo31(dm)
        loSum == bplus * t.lo + TimesOver(bplus, t.u, dm, 0)
        hiSum == bplus * t.hi + loSum \div 65536
    IN  [hi |-> hiSum % 65536, lo |-> loSum % 65536, over |-> hiSum >= 65536]

\* What the conversion of an out-of-range double to uint32_t yields, per build.
Conversions == {"wrap", "saturate"}

\* j = (b + 1) * (double(1LL << 31) / double((key_val >> 33) + 1)): the
\* integer part of the product when it is below 2^32; otherwise the conversion
\* is undefined and the build decides (the low 32 bits of the 64-bit
\* conversion, or saturation at 0xFFFFFFFF).  For b + 1 < 49 the double
\* product has the integer part of the exact quotient.
NextCandidate(b, key_val, conv) ==
    LET q == Quotient(Val32(AddOne(b)), Shift33(key_val))
    IN  IF q.over /\ conv = "saturate"
        THEN <<255, 255, 255, 255>>
        ELSE <<q.lo % 256, q.lo \div 256, q.hi % 256, q.hi \div 256>>

\* while (j < num_buckets)
LoopTest_inclusive(j, num_buckets) == ~Less(num_buckets, Widen(j))

LoopTest(j, num_buckets) == Less(Widen(j), num_buckets)

-----------------------------------------------------------------------------
\* Inputs of the hash functions.

\* Bucket indices: small ones, the largest 32-bit one, and two of a table with
\* more than 2^32 buckets.
IndexInputs ==
    { U64(v) : v \in 0 .. MaxIndex }
        \cup { <<255, 255, 255, 255, 0, 0, 0, 0>>,
               <<0, 0, 0, 0, 1, 0, 0, 0>>,
               <<5, 0, 0, 0, 2, 0, 0, 0>> }

\* Bucket counts of the tables the indices belong to: a small one, 2^32 and
\* one above 2^32 (table_size is a size_t).
TableSizeInputs ==
    { U64(MaxIndex + 1),
      <<0, 0, 0, 0, 1, 0, 0, 0>>,
      <<6, 0, 0, 0, 2, 0, 0, 0>> }

ComplementFps ==
    { Zero32, U32(1), U32(42), <<0, 0, 0, 128>>, <<255, 255, 255, 255>> }

\* Keys: small ones, the largest one, and 0x219C874CE227E7E4, for which the
\* second refinement step divides by 1.
KeyInputs ==
    { U64(v) : v \in 0 .. 5 }
        \cup { <<255, 255, 255, 255, 255, 255, 255, 255>>,
               <<228, 231, 39, 226, 76, 135, 156, 33>> }

BucketCounts == { U64(v) : v \in 1 .. MaxBuckets }

ComplementIdle ==
    [pc |-> "idle", table_size |-> U64(1), index |-> U64(0), fp |-> Zero32,
     once |-> Zero32, twice |-> Zero32]

HashIdle ==
    [pc |-> "idle", call |-> 0, conv |-> "wrap", key |-> U64(0), num_buckets |-> U64(1),
     key_val |-> U64(0), b |-> U32(1), j |-> Zero32, iters |-> 0,
     ret |-> U64(0), first |-> U64(0)]

-----------------------------------------------------------------------------
\* State machine of one table: construction, then any sequence of calls.

Call(op, i, j, fp, eject, ret, prev) ==
    [op |-> op, i |-> i, j |-> j, fp |-> fp, eject |-> eject, ret |-> ret, prev |-> prev]

\* The counter of one watched (bucket, fingerprint) pair, at zero.
Watch(i, fp) == [i |-> i, fp |-> fp, n |-> 0]

\* CuckooTable(table_size, fp_mask)
Init ==
    /\ table_size \in 1 .. MaxTableSize
    /\ fp_mask = FpMaskInput
    /\ buckets = EmptyTable(table_size)
    /\ pre = buckets
    /\ last = Call("new", 0, 0, Zero32, FALSE, FALSE, NotWritten)
    /\ net = Watch(0, U32(1))
    /\ cq = ComplementIdle
    /\ hq = HashIdle
    /\ ctor = CtorBuilt

Insert(i, fp, eject) ==
    \E out \in replacingFingerprintInsertion(buckets, i, fp, eject) :
        /\ pre' = buckets
        /\ buckets' = out.buckets
        /\ last' = Call("insert", i, 0, fp, eject, out.ret, out.prev)

Delete(fp, i) ==
    LET out == deleteFingerprint(buckets, fp, i)
    IN  /\ pre' = buckets
        /\ buckets' = out.buckets
        /\ last' = Call("delete", i, 0, fp, FALSE, out.ret, NotWritten)

SetFingerprint(i, j, fp) ==
    /\ pre' = buckets
    /\ buckets' = insertFingerprint(buckets, i, j, fp)
    /\ last' = Call("set", i, j, fp, FALSE, FALSE, NotWritten)

Contains(i, fp) ==
    /\ pre' = buckets
    /\ buckets' = buckets
    /\ last' = Call("contains", i, 0, fp, FALSE, containsFingerprint(buckets, i, fp), NotWritten)

DoInsert ==
    /\ \E i \in BucketIdx, fp \in FpInputs, eject \in BOOLEAN : Insert(i, fp, eject)
    /\ UNCHANGED <<table_size, fp_mask, net, cq, hq, ctor>>

DoDelete ==
    /\ \E i \in BucketIdx, fp \in FpInputs : Delete(fp, i)
    /\ UNCHANGED <<table_size, fp_mask, net, cq, hq, ctor>>

DoSetFingerprint ==
    /\ \E i \in BucketIdx, j \in Slots, fp \in FpInputs : SetFingerprint(i, j, fp)
    /\ UNCHANGED <<table_size, fp_mask, net, cq, hq, ctor>>

DoContains ==
    /\ \E i \in BucketIdx, fp \in FpInputs : Contains(i, fp)
    /\ UNCHANGED <<table_size, fp_mask, net, cq, hq, ctor>>

Next == DoInsert \/ DoDelete \/ DoSetFingerprint \/ DoContains

Spec == Init /\ [][Next]_vars

-----------------------------------------------------------------------------
\* The table driven through its whole public interface: the calls above and
\* the read-only ones.  A read-only call records its result in last.ret.

Query(op, i, j, fp, ret) ==
    /\ pre' = buckets
    /\ buckets' = buckets
    /\ last' = Call(op, i, j, fp, FALSE, ret, NotWritten)
    /\ UNCHANGED <<table_size, fp_mask, net, cq, hq, ctor>>

\* Arguments of this specification: 0, 1, and the two arguments with a bit
\* outside the mask.
CallFps == FpInputs \ {U32(2)}

CallInsert ==
    /\ \E i \in BucketIdx, fp \in CallFps, eject \in BOOLEAN : Insert(i, fp, eject)
    /\ UNCHANGED <<table_size, fp_mask, net, cq, hq, ctor>>

CallDelete ==
    /\ \E i \in BucketIdx, fp \in CallFps : Delete(fp, i)
    /\ UNCHANGED <<table_size, fp_mask, net, cq, hq, ctor>>

CallSetFingerprint ==
    /\ \E i \in BucketIdx, j \in Slots, fp \in CallFps : SetFingerprint(i, j, fp)
    /\ UNCHANGED <<table_size, fp_mask, net, cq, hq, ctor>>

CallContains ==
    /\ \E i \in BucketIdx, fp \in CallFps : Contains(i, fp)
    /\ UNCHANGED <<table_size, fp_mask, net, cq, hq, ctor>>

\* containsFingerprint(i1, i2, fp); last.j holds i2.
DoContainsEither ==
    \E i1 \in BucketIdx, i2 \in BucketIdx, fp \in CallFps :
        Query("contains_either", i1, i2, fp, containsFingerprint2(buckets, i1, i2, fp))

DoGetFingerprint ==
    \E i \in BucketIdx, j \in Slots :
        Query("get", i, j, Zero32, getFingerprint(buckets, i, j))

DoFingerprintCount ==
    \E i \in BucketIdx : Query("count", i, 0, Zero32, fingerprintCount(buckets, i))

DoGetNumOfFreeEntries == Query("free", 0, 0, Zero32, getNumOfFreeEntries(buckets))

DoGetTableSize == Query("size", 0, 0, Zero32, getTableSize)

DoMaxNoOfElements == Query("max", 0, 0, Zero32, maxNoOfElements)

NextCalls ==
    \/ CallInsert
    \/ CallDelete
    \/ CallSetFingerprint
    \/ CallContains
    \/ DoContainsEither
    \/ DoGetFingerprint
    \/ DoFingerprintCount
    \/ DoGetNumOfFreeEntries
    \/ DoGetTableSize
    \/ DoMaxNoOfElements

SpecCalls == Init /\ [][NextCalls]_vars

-----------------------------------------------------------------------------
\* The same table driven only by insertion without eviction, deletion and
\* lookup; net counts, for a bucket and a nonzero fingerprint picked at
\* construction, the insertions that returned true minus the deletions that
\* returned true.

CountedFps == MaskedFps \ {Zero32}

\* One more (d = 1) or one less (d = -1) for the watched bucket and fingerprint.
Bump(i, fp, d) ==
    IF i = net.i /\ fp = net.fp THEN [net EXCEPT !.n = @ + d] ELSE net

InitNoEvict ==
    /\ table_size \in 1 .. MaxTableSize
    /\ fp_mask = FpMaskInput
    /\ buckets = EmptyTable(table_size)
    /\ pre = buckets
    /\ last = Call("new", 0, 0, Zero32, FALSE, FALSE, NotWritten)
    /\ net \in { Watch(i, fp) : i \in BucketIdx, fp \in CountedFps }
    /\ cq = ComplementIdle
    /\ hq = HashIdle
    /\ ctor = CtorBuilt

\* The calls of this specification record only their name and return value.
Outcome(op, ret) == Call(op, 0, 0, Zero32, FALSE, ret, NotWritten)

CountedInsert ==
    /\ \E i \in BucketIdx, fp \in FpInputs :
          \E out \in replacingFingerprintInsertion(buckets, i, fp, FALSE) :
              /\ buckets' = out.buckets
              /\ last' = Outcome("insert", out.ret)
              /\ net' = IF out.ret THEN Bump(i, fp, 1) ELSE net
    /\ UNCHANGED <<table_size, fp_mask, pre, cq, hq, ctor>>

CountedDelete ==
    /\ \E i \in BucketIdx, fp \in FpInputs :
          LET out == deleteFingerprint(buckets, fp, i)
          IN  /\ buckets' = out.buckets
              /\ last' = Outcome("delete", out.ret)
              /\ net' = IF out.ret THEN Bump(i, fp, -1) ELSE net
              /\ net'.n >= -MaxNet
    /\ UNCHANGED <<table_size, fp_mask, pre, cq, hq, ctor>>

CountedContains ==
    /\ \E i \in BucketIdx, fp \in FpInputs :
          last' = Outcome("contains", containsFingerprint(buckets, i, fp))
    /\ UNCHANGED <<table_size, fp_mask, buckets, pre, net, cq, hq, ctor>>

NextNoEvict == CountedInsert \/ CountedDelete \/ CountedContains

SpecNoEvict == InitNoEvict /\ [][NextNoEvict]_vars

-----------------------------------------------------------------------------
\* fingerprintComplement applied to an index and then to its own result.

TableIdle ==
    /\ table_size = 1
    /\ fp_mask = FpMaskInput
    /\ buckets = EmptyTable(1)
    /\ pre = buckets
    /\ last = Call("new", 0, 0, Zero32, FALSE, FALSE, NotWritten)
    /\ net = Watch(0, U32(1))
    /\ ctor = CtorBuilt

InitComplement ==
    /\ TableIdle
    /\ hq = HashIdle
    /\ \E n \in TableSizeInputs, i \in IndexInputs, f \in ComplementFps :
           /\ Less(i, n)
           /\ cq = [ComplementIdle EXCEPT !.pc = "start", !.table_size = n,
                                          !.index = i, !.fp = f]

ComplementOnce ==
    /\ cq.pc = "start"
    /\ cq' = [cq EXCEPT !.pc = "once", !.once = fingerprintComplement(cq.index, cq.fp)]
    /\ UNCHANGED <<table_size, fp_mask, buckets, pre, last, net, hq, ctor>>

ComplementTwice ==
    /\ cq.pc = "once"
    /\ cq' = [cq EXCEPT !.pc = "twice",
                        !.twice = fingerprintComplement(Widen(cq.once), cq.fp)]
    /\ UNCHANGED <<table_size, fp_mask, buckets, pre, last, net, hq, ctor>>

NextComplement == ComplementOnce \/ ComplementTwice

SpecComplement == InitComplement /\ [][NextComplement]_vars

-----------------------------------------------------------------------------
\* HashFunction::hash called twice with the same key and num_buckets.

\* unsigned long long key_val = std::hash<size_t>{}(key); uint32_t b = 1, j = 0;
HashEntry(h, n) ==
    [h EXCEPT !.pc = "loop", !.call = n, !.key_val = StdHash(h.key),
              !.b = U32(1), !.j = Zero32, !.iters = 0]

InitHash ==
    /\ TableIdle
    /\ cq = ComplementIdle
    /\ hq \in { HashEntry([HashIdle EXCEPT !.key = k, !.num_buckets = n, !.conv = c], 1) :
                  k \in KeyInputs, n \in BucketCounts, c \in Conversions }

\* One iteration of the loop body.
HashStep ==
    /\ hq.pc = "loop"
    /\ LoopTest(hq.j, hq.num_buckets)
    /\ LET kv == LcgStep(hq.key_val)
       IN  hq' = [hq EXCEPT !.b = hq.j, !.key_val = kv,
                            !.j = NextCandidate(hq.j, kv, hq.conv),
                            !.iters = @ + 1]
    /\ UNCHANGED <<table_size, fp_mask, buckets, pre, last, net, cq, ctor>>

\* return b;
HashReturn ==
    /\ hq.pc = "loop"
    /\ ~LoopTest(hq.j, hq.num_buckets)
    /\ hq' = [hq EXCEPT !.pc = "done", !.ret = Widen(hq.b)]
    /\ UNCHANGED <<table_size, fp_mask, buckets, pre, last, net, cq, ctor>>

\* The second call, with the arguments of the first.
HashAgain ==
    /\ hq.pc = "done"
    /\ hq.call = 1
    /\ hq' = HashEntry([hq EXCEPT !.first = hq.ret], 2)
    /\ UNCHANGED <<table_size, fp_mask, buckets, pre, last, net, cq, ctor>>

NextHash == HashStep \/ HashReturn \/ HashAgain

SpecHash == InitHash /\ [][NextHash]_vars

-----------------------------------------------------------------------------
\* The constructor, for instantiations of every shape.

EntriesInputs == {1, 2, 4, 8}

BitsInputs == {4, 8, 12, 16, 32}

TypeInputs == {"uint8_t", "uint16_t", "uint32_t", "uint64_t"}

\* new Bucket[table_size] followed by memset(buckets, 0, ...), for buckets of
\* the given number of bytes.
ZeroedBuckets(n, bytes) == [i \in 0 .. (n - 1) |-> [m \in 0 .. (bytes - 1) |-> 0]]

\* No table object exists yet: the constructor is about to be called with
\* table_size buckets.
InitConstruct ==
    /\ table_size \in 1 .. MaxTableSize
    /\ fp_mask = FpMaskInput
    /\ buckets = ZeroedBuckets(0, 0)
    /\ pre = buckets
    /\ last = Call("none", 0, 0, Zero32, FALSE, FALSE, NotWritten)
    /\ net = Watch(0, U32(1))
    /\ cq = ComplementIdle
    /\ hq = HashIdle
    /\ ctor \in { CtorStart(e, b, t) : e \in EntriesInputs, b \in BitsInputs, t \in TypeInputs }

\* CuckooTable(table_size, fp_mask): the fields are set and the buckets zeroed,
\* then the codec is chosen; a throw leaves no object behind.
Construct ==
    /\ ctor.pc = "start"
    /\ ctor' = CtorRun(ctor)
    /\ IF ctor'.pc = "built"
       THEN /\ buckets' = ZeroedBuckets(table_size,
                              (ctor.entries_per_bucket * ctor.bits_per_fp) \div 8)
            /\ last' = Call("new", 0, 0, Zero32, FALSE, TRUE, NotWritten)
       ELSE /\ buckets' = buckets
            /\ last' = Call("new", 0, 0, Zero32, FALSE, FALSE, NotWritten)
    /\ pre' = buckets'
    /\ UNCHANGED <<table_size, fp_mask, net, cq, hq>>

NextConstruct == Construct

SpecConstruct == InitConstruct /\ [][NextConstruct]_vars

-----------------------------------------------------------------------------
\* Properties of the bucket table.

Masked(fp) == And32(fp, fp_mask)

IsInsert == last.op = "insert"

IsDelete == last.op = "delete"

\* The bucket of the last call had no empty slot when the call was entered.
WasFull == fingerprintCount(pre, last.i) = entries_per_bucket

\* Slots of the last call's bucket that held the last call's fingerprint.
Matching == { j \in Slots : getFingerprint(pre, last.i, j) = last.fp }

\* Every slot other than (i, s) holds the bytes it held before the last call.
OthersKept(i, s) ==
    \A i2 \in BucketIdx, j2 \in Slots :
        (i2 # i \/ j2 # s) => read(j2, buckets[i2]) = read(j2, pre[i2])

\* C1 as stated: after insert_with_eviction(i, fp, false) returns true, for a
\* fingerprint fp inside the mask, contains(i, fp) is true and occupancy(i) is
\* one greater than before the call.
C1_InsertedThenPresent_AsStated ==
    (IsInsert /\ ~last.eject /\ last.ret /\ Masked(last.fp) = last.fp) =>
        /\ containsFingerprint(buckets, last.i, last.fp)
        /\ fingerprintCount(buckets, last.i) = fingerprintCount(pre, last.i) + 1

\* C1 amended: after insert_with_eviction(i, fp, false) returns true with
\* fp & fp_mask nonzero, contains(i, fp & fp_mask) is true and occupancy(i) is
\* exactly one greater than before the call.
C1_InsertedThenPresent ==
    (IsInsert /\ ~last.eject /\ last.ret /\ Masked(last.fp) # Zero32) =>
        /\ containsFingerprint(buckets, last.i, Masked(last.fp))
        /\ fingerprintCount(buckets, last.i) = fingerprintCount(pre, last.i) + 1

C1_Witness ==
    /\ IsInsert /\ ~last.eject /\ last.ret
    /\ Masked(last.fp) # Zero32
    /\ fingerprintCount(pre, last.i) = 1
    /\ fingerprintCount(buckets, last.i) = 2

\* C2 as stated: insert_with_eviction(i, fp, true) into a bucket without empty
\* slot returns false, changes exactly one slot of bucket i, reports the value
\* that slot held as evicted_fp, leaves fp & fp_mask in it and keeps
\* occupancy(i).
C2_Eviction_AsStated ==
    (IsInsert /\ last.eject /\ WasFull) =>
        LET changed == { j \in Slots :
                getFingerprint(pre, last.i, j) # getFingerprint(buckets, last.i, j) }
        IN  /\ last.ret = FALSE
            /\ Cardinality(changed) = 1
            /\ \A j \in changed :
                  /\ last.prev = getFingerprint(pre, last.i, j)
                  /\ getFingerprint(buckets, last.i, j) = Masked(last.fp)
            /\ fingerprintCount(buckets, last.i) = fingerprintCount(pre, last.i)

\* C2 amended: insert_with_eviction(i, fp, true) into a bucket without empty
\* slot returns false and overwrites one slot s of bucket i with fp & fp_mask;
\* evicted_fp is the value s held before, no other slot changes (s itself
\* keeps its value when it already held fp & fp_mask), fp & fp_mask is present
\* in bucket i, and occupancy(i) is unchanged when fp & fp_mask is nonzero and
\* one less when it is zero.
C2_Eviction ==
    (IsInsert /\ last.eject /\ WasFull) =>
        /\ last.ret = FALSE
        /\ \E s \in Slots :
              /\ last.prev = getFingerprint(pre, last.i, s)
              /\ getFingerprint(buckets, last.i, s) = Masked(last.fp)
              /\ OthersKept(last.i, s)
        /\ containsFingerprint(buckets, last.i, Masked(last.fp))
        /\ fingerprintCount(buckets, last.i) =
              IF Masked(last.fp) # Zero32
              THEN fingerprintCount(pre, last.i)
              ELSE fingerprintCount(pre, last.i) - 1

C2_Witness ==
    /\ IsInsert /\ last.eject /\ WasFull
    /\ last.ret = FALSE
    /\ last.prev # NotWritten
    /\ last.prev # Masked(last.fp)
    /\ Masked(last.fp) # Zero32
    /\ getFingerprint(pre, last.i, 0) # getFingerprint(pre, last.i, 1)

\* C3: insert_with_eviction(i, fp, false) into a bucket without empty slot
\* returns false, does not write evicted_fp, and leaves every byte of every
\* bucket as it was.
C3_FullNoEviction ==
    (IsInsert /\ ~last.eject /\ WasFull) =>
        /\ last.ret = FALSE
        /\ last.prev = NotWritten
        /\ buckets = pre

C3_Witness ==
    /\ IsInsert /\ ~last.eject /\ WasFull
    /\ Masked(last.fp) # Zero32
    /\ table_size > 1

\* C4: without eviction there are no false negatives: whenever more
\* insert_with_eviction(i, fp, false) calls returned true than delete(fp, i)
\* calls returned true, for a nonzero fingerprint fp, contains(i, fp) is true.
C4_NoFalseNegatives ==
    net.n > 0 => containsFingerprint(buckets, net.i, net.fp)

\* Two insertions of the watched fingerprint and one deletion of it: the
\* deletion cleared slot 0, the second copy is still in slot 1.
C4_Witness ==
    /\ IsDelete /\ last.ret
    /\ net.n = 1
    /\ getFingerprint(buckets, net.i, 0) = Zero32
    /\ getFingerprint(buckets, net.i, 1) = net.fp

\* C5: delete(fp, i) returns true exactly when some slot of bucket i equals
\* fp; then the lowest-indexed such slot, and only that slot, is set to 0;
\* otherwise no byte of the table changes.
C5_DeleteFirstMatch ==
    IsDelete =>
        /\ last.ret = (Matching # {})
        /\ last.ret =>
              /\ read(SetMin(Matching), buckets[last.i]) = Zero32
              /\ OthersKept(last.i, SetMin(Matching))
        /\ ~last.ret => buckets = pre

C5_Witness ==
    /\ IsDelete /\ last.ret
    /\ last.fp # Zero32
    /\ Cardinality(Matching) = 2
    /\ getFingerprint(buckets, last.i, 0) = Zero32
    /\ getFingerprint(buckets, last.i, 1) = last.fp

\* C6 as stated: after delete(fp, i), contains(i, fp) is false unless at least
\* two slots of bucket i held fp before the delete.
C6_DeleteThenAbsent_AsStated ==
    (IsDelete /\ containsFingerprint(buckets, last.i, last.fp)) =>
        Cardinality(Matching) >= 2

\* C6 amended: for every nonzero fp, after delete(fp, i), contains(i, fp) is
\* false unless at least two slots of bucket i held fp before the delete.
C6_DeleteThenAbsent ==
    (IsDelete /\ last.fp # Zero32 /\ containsFingerprint(buckets, last.i, last.fp)) =>
        Cardinality(Matching) >= 2

C6_Witness ==
    /\ IsDelete /\ last.ret
    /\ last.fp # Zero32
    /\ Cardinality(Matching) = 1
    /\ ~containsFingerprint(buckets, last.i, last.fp)

\* C7: for every bucket i and every 32-bit argument fp, contains(i, fp) is
\* true exactly when some slot j of bucket i has fingerprint_at(i, j) equal to
\* fp & fp_mask (stated here for the arguments whose masked value is not the
\* empty sentinel).
C7_ContainsIffSlot ==
    \A i \in BucketIdx, fp \in { f \in FpInputs : Masked(f) # Zero32 } :
        containsFingerprint(buckets, i, fp) =
            (\E j \in Slots : getFingerprint(buckets, i, j) = Masked(fp))

\* C8: no stored slot value has a bit outside fp_mask.
C8_StoredMasked ==
    \A i \in BucketIdx, j \in Slots :
        And32(read(j, buckets[i]), fp_mask) = read(j, buckets[i])

C8_Witness ==
    /\ last.op \in {"set", "insert"}
    /\ last.fp \in DirtyFps
    /\ Masked(last.fp) # Zero32
    /\ \E j \in Slots : read(j, buckets[last.i]) = Masked(last.fp)

-----------------------------------------------------------------------------
\* Properties of the hash functions.

\* C9: fingerprintComplement(fingerprintComplement(i, fp), fp) == i for every
\* bucket index i in [0, table_size) and every 32-bit fp.
C9_ComplementInvolution ==
    cq.pc = "twice" /\ Less(cq.index, cq.table_size) => Widen(cq.twice) = cq.index

C11_AtMostNumBucketsIterations ==
    hq.pc \in {"loop", "done"} =>
        /\ ~Less(hq.num_buckets, U64(hq.iters))
        /\ hq.iters > 0 => Less(Widen(hq.b), Widen(hq.j))

\* C12: after set_fingerprint(i, j, fp), fingerprint_at(i, j) is fp & fp_mask,
\* and fingerprint_at of every other slot address is what it was before.
C12_SetThenGet ==
    last.op = "set" =>
        /\ getFingerprint(buckets, last.i, last.j) = Masked(last.fp)
        /\ \A i2 \in BucketIdx, j2 \in Slots :
              (i2 # last.i \/ j2 # last.j) =>
                  getFingerprint(buckets, i2, j2) = getFingerprint(pre, i2, j2)

\* An occupied slot was overwritten with an argument that has a bit outside the
\* mask, next to an occupied slot of the same bucket, in a table of two buckets.
C12_Witness ==
    /\ last.op = "set"
    /\ last.fp \in DirtyFps
    /\ Masked(last.fp) # Zero32
    /\ table_size > 1
    /\ getFingerprint(pre, last.i, last.j) \notin {Zero32, Masked(last.fp)}
    /\ getFingerprint(buckets, last.i, 1 - last.j) # Zero32
    /\ \E i2 \in BucketIdx : i2 # last.i /\ fingerprintCount(buckets, i2) > 0

\* C13: construction succeeds exactly for the shapes (4,4,8-bit), (4,8,8-bit),
\* (4,12,16-bit), (4,16,16-bit) and (2,32,32-bit), each with its own codec;
\* for every other shape it throws, no table exists and no codec was chosen.
C13_ShapeChecked ==
    ctor.pc # "start" =>
        LET shape == <<ctor.entries_per_bucket, ctor.bits_per_fp, ctor.fp_type>>
            supported == { <<4, 4, "uint8_t">>, <<4, 8, "uint8_t">>, <<4, 12, "uint16_t">>,
                           <<4, 16, "uint16_t">>, <<2, 32, "uint32_t">> }
        IN  /\ (ctor.pc = "built") = (shape \in supported)
            /\ ctor.pc = "built" =>
                  /\ ctor.bit_manager \in {"BitManager4", "BitManager8", "BitManager12",
                                           "BitManager16", "BitManager32"}
                  /\ DOMAIN buckets = 0 .. (table_size - 1)
            /\ ctor.pc # "built" =>
                  /\ ctor.pc = "thrown"
                  /\ ctor.bit_manager = "unset"
                  /\ DOMAIN buckets = {}

\* The constructor threw for a shape that differs from a supported one only in
\* the fingerprint word type.
C13_Witness ==
    /\ ctor.pc = "thrown"
    /\ ctor.entries_per_bucket = 2
    /\ ctor.bits_per_fp = 32
    /\ ctor.fp_type = "uint64_t"

\* C14: contains_either(i1, i2, fp) is true exactly when contains(i1, fp) or
\* contains(i2, fp) is, for all buckets i1 and i2 (equal or not) and every fp.
C14_EitherIsOr ==
    last.op = "contains_either" =>
        last.ret = (containsFingerprint(buckets, last.i, last.fp)
                        \/ containsFingerprint(buckets, last.j, last.fp))

\* The fingerprint is in the second bucket only.
C14_Witness ==
    /\ last.op = "contains_either"
    /\ last.ret = TRUE
    /\ last.fp # Zero32
    /\ last.i # last.j
    /\ ~containsFingerprint(buckets, last.i, last.fp)
    /\ containsFingerprint(buckets, last.j, last.fp)

\* Slot (i, j) held a fingerprint before the last call and holds another value now.
OccupiedChanged(i, j) ==
    /\ getFingerprint(pre, i, j) # Zero32
    /\ getFingerprint(buckets, i, j) # getFingerprint(pre, i, j)

\* Slot (i, j) held a fingerprint before the last call and is empty now.
BecameEmpty(i, j) ==
    /\ getFingerprint(pre, i, j) # Zero32
    /\ getFingerprint(buckets, i, j) = Zero32

\* What C15 says of insert_with_eviction: an occupied slot changes only under
\* allow_eviction with bucket i full, and with an empty slot in bucket i only
\* the lowest-indexed empty slot is written.
InsertLifecycle ==
    IsInsert =>
        /\ \A i \in BucketIdx, j \in Slots :
              OccupiedChanged(i, j) => (last.eject /\ WasFull)
        /\ ~WasFull =>
              OthersKept(last.i,
                         SetMin({ j \in Slots : getFingerprint(pre, last.i, j) = Zero32 }))

\* C15 as stated: the insert_with_eviction rules above, and an occupied slot
\* becomes empty only through delete or set_fingerprint(.., 0).
C15_SlotLifecycle_AsStated ==
    /\ InsertLifecycle
    /\ \A i \in BucketIdx, j \in Slots :
          BecameEmpty(i, j) =>
              \/ IsDelete
              \/ last.op = "set" /\ Masked(last.fp) = Zero32

\* C15 amended: the insert_with_eviction rules above, and an occupied slot
\* becomes empty only through delete, through set_fingerprint with
\* fp & fp_mask = 0, or through insert_with_eviction(i, fp, true) into a full
\* bucket with fp & fp_mask = 0.
C15_SlotLifecycle ==
    /\ InsertLifecycle
    /\ \A i \in BucketIdx, j \in Slots :
          BecameEmpty(i, j) =>
              \/ IsDelete
              \/ last.op = "set" /\ Masked(last.fp) = Zero32
              \/ IsInsert /\ last.eject /\ WasFull /\ Masked(last.fp) = Zero32

\* A kick replaced the fingerprint of slot 1 by a different one while slot 0
\* kept its own.
C15_Witness ==
    /\ IsInsert /\ last.eject /\ WasFull
    /\ Masked(last.fp) # Zero32
    /\ OccupiedChanged(last.i, 1)
    /\ getFingerprint(buckets, last.i, 1) = Masked(last.fp)
    /\ getFingerprint(buckets, last.i, 0) = getFingerprint(pre, last.i, 0)

\* C16: insert_with_eviction(i, fp, .) with fp & fp_mask = 0 into a bucket that
\* has an empty slot leaves every slot value, occupancy(i) and
\* free_slot_count() as they were before the call.
C16_ZeroInsertInvisible ==
    (IsInsert /\ Masked(last.fp) = Zero32 /\ ~WasFull) =>
        /\ buckets = pre
        /\ fingerprintCount(buckets, last.i) = fingerprintCount(pre, last.i)
        /\ getNumOfFreeEntries(buckets) = getNumOfFreeEntries(pre)

\* The call was made with a nonzero argument that masks to 0, on a bucket with
\* one fingerprint and one empty slot, and it reported success.
C16_Witness ==
    /\ IsInsert /\ last.ret
    /\ last.fp # Zero32
    /\ Masked(last.fp) = Zero32
    /\ fingerprintCount(pre, last.i) = 1

\* occupancy(0) + ... + occupancy(n - 1).
RECURSIVE SumCounts(_, _)
SumCounts(b, n) ==
    IF n = 0 THEN 0 ELSE fingerprintCount(b, n - 1) + SumCounts(b, n - 1)

\* C17: right after construction free_slot_count() = max_elements() =
\* entries_per_bucket * table_size; in every reachable state every occupancy(i)
\* lies in 0 .. entries_per_bucket and free_slot_count() plus the sum of all
\* occupancy(i) is max_elements(); table_size and max_elements() never change.
C17_SlotAccounting ==
    /\ [](/\ last.op = "new" =>
               /\ getNumOfFreeEntries(buckets) = maxNoOfElements
               /\ maxNoOfElements = entries_per_bucket * table_size
           /\ \A i \in BucketIdx : fingerprintCount(buckets, i) \in 0 .. entries_per_bucket
           /\ getNumOfFreeEntries(buckets) + SumCounts(buckets, table_size) = maxNoOfElements)
    /\ [][/\ table_size' = table_size
          /\ maxNoOfElements' = maxNoOfElements]_vars

\* free_slot_count() was called on a table of two buckets and returned 1.
C17_Witness ==
    /\ last.op = "free"
    /\ last.ret = 1
    /\ table_size = 2
    /\ SumCounts(buckets, table_size) = 3

\* C18: insert_with_eviction(i, ..), delete(fp, i) and set_fingerprint(i, j, fp)
\* change at most one slot, which lies in bucket i, and leave every other
\* bucket byte-identical; the read-only calls change nothing.
C18_SingleSlotFrame ==
    /\ last.op \in {"insert", "delete", "set"} =>
          /\ \E s \in Slots : OthersKept(last.i, s)
          /\ \A i2 \in BucketIdx : i2 # last.i => buckets[i2] = pre[i2]
    /\ last.op \in {"get", "count", "free", "contains", "contains_either", "size", "max"} =>
          buckets = pre

\* A delete found its fingerprint in both slots of bucket i, cleared one of
\* them, and the other bucket holds fingerprints of its own.
C18_Witness ==
    /\ IsDelete /\ last.ret
    /\ last.fp # Zero32
    /\ Cardinality(Matching) = 2
    /\ fingerprintCount(buckets, last.i) = 1
    /\ \E i2 \in BucketIdx : i2 # last.i /\ fingerprintCount(buckets, i2) = 2

====
